---- MODULE Spec2Model ----
(***************************************************************************)
(* Nitrogen-load analysis: the distance-banded rate policy                 *)
(* (src/src/analysis.py), the batch pipeline (src/src/main.py with         *)
(* src/src/data_loader.py) and the /check-area query service (src/app.py). *)
(*                                                                         *)
(* Numbers that are floats in the program are exact rationals here         *)
(* ([n |-> numerator, d |-> denominator], d > 0); floating-point rounding  *)
(* is not modelled.  Python's None is the value with denominator 0.        *)
(***************************************************************************)
EXTENDS Integers, Sequences, FiniteSets, TLC

VARIABLES
    \* ---- rate policy harness ----
    d1, d2,          \* two distance arguments (rationals, metres)
    r1, r2,          \* the rates returned for them, Unset before the call
    \* ---- batch pipeline / direct calls of the analysis functions ----
    pc,              \* position in run_pipeline, or "direct" for direct calls
    files,           \* the candidate vector files found by scan_workspace
    bewDir,          \* [isdir, rates]: the Bewirtschaftungsdokumentation-PDF folder
    fields,          \* the GeoDataFrame `fields`
    waters,          \* the GeoDataFrame `waters`
    n_df,            \* the DataFrame of nitrogen records (sequence of rates)
    prev,            \* the argument of the latest compute_n_loads call
    calls,           \* sequence of the analysis functions called so far
    error,           \* the exception that aborted the run, or "none"
    csvWritten,      \* fields_n_loads.csv has been written
    geoWritten,      \* fields_n_loads.geojson has been written
    \* ---- query service ----
    gdf,             \* stored field collection (module-level gdf)
    sindex,          \* its spatial index: sequence of bounding boxes
    request,         \* the GeoJSONRequest being handled
    qpc,             \* position in check_area
    polygon,         \* parsed query geometry
    candidates,      \* possible_matches_index not yet iterated
    results,         \* the results list
    response,        \* the HTTP response of the request
    lookups,         \* number of sindex.intersection calls made for the request
    tests            \* number of polygon.intersects calls made for the request

policyVars == <<d1, d2, r1, r2>>
pipeVars == <<pc, files, bewDir, fields, waters, n_df, prev, calls, error,
              csvWritten, geoWritten>>
queryVars == <<gdf, sindex, request, qpc, polygon, candidates, results,
               response, lookups, tests>>
vars == <<policyVars, pipeVars, queryVars>>

(***************************************************************************)
(* Exact rationals                                                         *)
(***************************************************************************)
Abs(x) == IF x < 0 THEN -x ELSE x

RECURSIVE GCD(_, _)
GCD(a, b) == IF b = 0 THEN a ELSE GCD(b, a % b)

Rat(n, d) == LET g == GCD(Abs(n), d) IN [n |-> n \div g, d |-> d \div g]

None == [n |-> 0, d |-> 0]
IsNone(v) == v.d = 0
Num(k) == [n |-> k, d |-> 1]

RatMul(a, b) == Rat(a.n * b.n, a.d * b.d)
RatAdd(a, b) == Rat(a.n * b.d + b.n * a.d, a.d * b.d)
RatDivInt(a, k) == Rat(a.n, a.d * k)
RatLeq(a, b) == IF a.d = b.d THEN a.n <= b.n ELSE a.n * b.d <= b.n * a.d
RatGeqInt(a, k) == a.n >= k * a.d

RECURSIVE SeqSum(_)
SeqSum(s) == IF s = <<>> THEN Num(0) ELSE RatAdd(Head(s), SeqSum(Tail(s)))

(***************************************************************************)
(* Nitrogen rate policy: analysis.py calculate_nitrogen_from_distance      *)
(***************************************************************************)
Band80 == 3000
Band50 == 2000
Band40 == 1000

\* the same policy with strict comparisons (boundary goes to the lower band)
calculate_nitrogen_from_distance_strict(dist_to_water_m) ==
    IF dist_to_water_m.n > Band80 * dist_to_water_m.d THEN 80
    ELSE IF dist_to_water_m.n > Band50 * dist_to_water_m.d THEN 50
    ELSE IF dist_to_water_m.n > Band40 * dist_to_water_m.d THEN 40
    ELSE 0

calculate_nitrogen_from_distance(dist_to_water_m) ==
    IF RatGeqInt(dist_to_water_m, Band80) THEN 80
    ELSE IF RatGeqInt(dist_to_water_m, Band50) THEN 50
    ELSE IF RatGeqInt(dist_to_water_m, Band40) THEN 40
    ELSE 0

(***************************************************************************)
(* Data frames.  A frame is its set of column names, its coordinate        *)
(* reference and its rows; a row holds a value for every column the model  *)
(* knows, None where the column is absent.  A geometry is a position x on  *)
(* one axis, in the units of the frame's coordinate reference, and its     *)
(* area m2 (square metres) under the metric projection.                    *)
(***************************************************************************)
NoCrs == "none"
Wgs == "EPSG:4326"
Metric == "EPSG:3857"

\* metres per coordinate unit on the modelled axis
UnitMetres(crs) == IF crs = Metric THEN 1 ELSE 500

NewRow(g, a) ==
    [geometry |-> g, area_ha |-> a, dist_to_water_m |-> None,
     fertilizer_amount_N_kg_per_ha |-> None, n_applied_kg_ha |-> None,
     n_total_kg |-> None, n_estimated_to_water_kg |-> None]

\* gpd.GeoDataFrame(): no columns, no rows, no coordinate reference
EmptyGeoDataFrame == [cols |-> {}, crs |-> NoCrs, rows |-> <<>>]

\* DataFrame.empty: some axis has length 0
IsEmpty(df) == df.rows = <<>> \/ df.cols = {}

\* GeoDataFrame.to_crs / GeoSeries.to_crs: a frame without coordinate
\* reference cannot be transformed (the call raises)
CanReproject(df) == df.crs # NoCrs

to_crs(df, crs) ==
    [df EXCEPT !.crs = crs,
               !.rows = [i \in DOMAIN df.rows |->
                   [df.rows[i] EXCEPT !.geometry.x =
                       (df.rows[i].geometry.x * UnitMetres(df.crs)) \div UnitMetres(crs)]]]

\* df[col] = vals: one value per row
SetCol(df, col, vals) ==
    [df EXCEPT !.cols = df.cols \cup {col},
               !.rows = [i \in DOMAIN df.rows |-> [df.rows[i] EXCEPT ![col] = vals[i]]]]

\* df[col] = v: the same value in every row
FillCol(df, col, v) == SetCol(df, col, [i \in DOMAIN df.rows |-> v])

Min(S) == CHOOSE m \in S : \A k \in S : m <= k

\* g.distance(water_union): planar distance to the nearest water geometry
DistanceToUnion(g, water_union) == Min({Abs(g.x - w) : w \in water_union})

Raised(e, df) == [raised |-> e, df |-> df]
Returned(df) == [raised |-> "none", df |-> df]

\* the no-data branch filling in a zero distance and the policy rate for it
DistanceNoData_zero(fields_) ==
    LET with_dist == FillCol(fields_, "dist_to_water_m", Num(0))
    IN SetCol(with_dist, "fertilizer_amount_N_kg_per_ha",
              [i \in DOMAIN with_dist.rows |->
                  Num(calculate_nitrogen_from_distance(with_dist.rows[i].dist_to_water_m))])

\* analysis.py lines 22-24
DistanceNoData(fields_) == FillCol(fields_, "dist_to_water_m", None)

\* analysis.py lines 25-33, both frames having a coordinate reference
DistanceMeasured(fields_, water) ==
    LET fields_m == to_crs(fields_, Metric)
        water_m == to_crs(water, Metric)
        water_union == {water_m.rows[i].geometry.x : i \in DOMAIN water_m.rows}
        with_dist == SetCol(fields_m, "dist_to_water_m",
            [i \in DOMAIN fields_m.rows |->
                Num(DistanceToUnion(fields_m.rows[i].geometry, water_union))])
        with_rate == SetCol(with_dist, "fertilizer_amount_N_kg_per_ha",
            [i \in DOMAIN with_dist.rows |->
                Num(calculate_nitrogen_from_distance(with_dist.rows[i].dist_to_water_m))])
    IN to_crs(with_rate, fields_.crs)

compute_distance_to_water(fields_, water) ==
    IF IsEmpty(fields_) \/ IsEmpty(water)
    THEN Returned(DistanceNoData(fields_))
    ELSE IF ~CanReproject(fields_) \/ ~CanReproject(water)
    THEN Raised("CRSError", fields_)
    ELSE Returned(DistanceMeasured(fields_, water))

RunoffCoef == Rat(1, 10)
SquareMetresPerHectare == 10000

Mean(rates) == RatDivInt(SeqSum(rates), Len(rates))

\* f["n_total_kg"] = f["n_applied_kg_ha"] * f["area_ha"]
WithTotal(f) ==
    SetCol(f, "n_total_kg",
        [i \in DOMAIN f.rows |-> RatMul(f.rows[i].n_applied_kg_ha, f.rows[i].area_ha)])

\* f["n_estimated_to_water_kg"] = f["n_total_kg"] * runoff_coef
WithToWater(f, runoff_coef) ==
    SetCol(f, "n_estimated_to_water_kg",
        [i \in DOMAIN f.rows |-> RatMul(f.rows[i].n_total_kg, runoff_coef)])

\* the records' part of compute_n_loads with the runoff coefficient applied
\* to the estimate already stored in the frame when there is one
FillLoads_reapply(f, n_df_, runoff_coef) ==
    LET t == WithTotal(FillCol(f, "n_applied_kg_ha", Mean(n_df_)))
    IN SetCol(t, "n_estimated_to_water_kg",
        [i \in DOMAIN t.rows |->
            IF IsNone(t.rows[i].n_estimated_to_water_kg)
            THEN RatMul(t.rows[i].n_total_kg, runoff_coef)
            ELSE RatMul(t.rows[i].n_estimated_to_water_kg, runoff_coef)])

\* the no-records part with the missing data reported as zero
FillNoData_zero(f) ==
    FillCol(FillCol(FillCol(f, "n_applied_kg_ha", Num(0)), "n_total_kg", Num(0)),
            "n_estimated_to_water_kg", Num(0))

\* the records' part with the distance-policy rate applied where the frame
\* has one
FillLoads_policy(f, n_df_, runoff_coef) ==
    LET applied == SetCol(f, "n_applied_kg_ha",
            [i \in DOMAIN f.rows |->
                IF IsNone(f.rows[i].fertilizer_amount_N_kg_per_ha) THEN Mean(n_df_)
                ELSE f.rows[i].fertilizer_amount_N_kg_per_ha])
    IN WithToWater(WithTotal(applied), runoff_coef)

\* analysis.py lines 47-50
FillNoData(f) ==
    FillCol(FillCol(FillCol(f, "n_applied_kg_ha", None), "n_total_kg", None),
            "n_estimated_to_water_kg", None)

\* analysis.py lines 51-56
FillLoads(f, n_df_, runoff_coef) ==
    LET mean_n == Mean(n_df_)
    IN WithToWater(WithTotal(FillCol(f, "n_applied_kg_ha", mean_n)), runoff_coef)

compute_n_loads(fields_, n_df_, runoff_coef) ==
    IF "area_ha" \notin fields_.cols /\ "geometry" \notin fields_.cols
    THEN Raised("AttributeError", fields_)
    ELSE IF "area_ha" \notin fields_.cols /\ ~CanReproject(fields_)
    THEN Raised("CRSError", fields_)
    ELSE LET f == IF "area_ha" \notin fields_.cols
                  THEN SetCol(fields_, "area_ha",
                           [i \in DOMAIN fields_.rows |->
                               Rat(fields_.rows[i].geometry.m2, SquareMetresPerHectare)])
                  ELSE fields_
         IN IF n_df_ = <<>>
            THEN Returned(FillNoData(f))
            ELSE Returned(FillLoads(f, n_df_, runoff_coef))

(***************************************************************************)
(* Inputs of the pipeline                                                  *)
(***************************************************************************)
MaxRows == 2
MaxWaterRows == 1
MaxRecords == 2
MaxCalls == 2

SeqsUpTo(S, n) == UNION {[1..k -> S] : k \in 0..n}

\* field parcels: geometry and the area attribute the file may carry
Parcels ==
    { [g |-> [x |-> 5, m2 |-> 100000], attr |-> Num(10)],
      [g |-> [x |-> 6, m2 |-> 75000], attr |-> Num(8)] }

WaterGeoms == { [x |-> 0, m2 |-> 20000], [x |-> 4, m2 |-> 20000] }

FieldFrames ==
    { [cols |-> IF hasArea THEN {"geometry", "area_ha"} ELSE {"geometry"},
       crs |-> c,
       rows |-> [i \in DOMAIN ps |-> NewRow(ps[i].g, IF hasArea THEN ps[i].attr ELSE None)]] :
      hasArea \in BOOLEAN, c \in {Wgs, NoCrs}, ps \in SeqsUpTo(Parcels, MaxRows) }

WaterFrames ==
    { [cols |-> {"geometry"}, crs |-> c,
       rows |-> [i \in DOMAIN gs |-> NewRow(gs[i], None)]] :
      c \in {Wgs, NoCrs}, gs \in SeqsUpTo(WaterGeoms, MaxWaterRows) }

RateSamples == { Num(60), Rat(25, 2) }
RecordSets == SeqsUpTo(RateSamples, MaxRecords)

\* a candidate vector file: whether gpd.read_file succeeds on it, whether its
\* path contains "water" or "gew", and the frame it holds
VectorFile(readable, isWater, frame) ==
    [readable |-> readable, isWater |-> isWater, frame |-> frame]

PlainFiles ==
    {VectorFile(TRUE, FALSE, f) : f \in FieldFrames}
        \cup {VectorFile(FALSE, FALSE, EmptyGeoDataFrame)}
WaterFiles ==
    {VectorFile(TRUE, TRUE, f) : f \in WaterFrames}
        \cup {VectorFile(FALSE, TRUE, EmptyGeoDataFrame)}

Workspaces ==
    UNION { {<<p, w>>, <<w, p>>} : p \in PlainFiles, w \in WaterFiles }

BewDirs ==
    {[isdir |-> TRUE, rates |-> rs] : rs \in RecordSets}
        \cup {[isdir |-> FALSE, rates |-> <<>>]}

(***************************************************************************)
(* data_loader.py                                                          *)
(***************************************************************************)
RECURSIVE load_first_vector(_)
load_first_vector(paths) ==
    IF paths = <<>> THEN EmptyGeoDataFrame
    ELSE IF Head(paths).readable THEN Head(paths).frame
    ELSE load_first_vector(Tail(paths))

IsWaterPath(f) == f.isWater

(***************************************************************************)
(* main.py run_pipeline, one action per stage; and direct calls of the     *)
(* two analysis functions                                                  *)
(***************************************************************************)
PolicyIdle == d1 = Num(0) /\ d2 = Num(0) /\ r1 = 0 /\ r2 = 0

PipelineInit ==
    /\ pc = "start"
    /\ files \in Workspaces
    /\ bewDir \in BewDirs
    /\ fields = EmptyGeoDataFrame
    /\ waters = EmptyGeoDataFrame
    /\ n_df = <<>>

DirectInit ==
    /\ pc = "direct"
    /\ files = <<>>
    /\ bewDir = [isdir |-> FALSE, rates |-> <<>>]
    /\ fields \in FieldFrames \cup {EmptyGeoDataFrame}
    /\ waters \in WaterFrames
    /\ n_df \in RecordSets

AnalysisInit ==
    /\ PipelineInit \/ DirectInit
    /\ prev = EmptyGeoDataFrame
    /\ calls = <<>>
    /\ error = "none"
    /\ csvWritten = FALSE
    /\ geoWritten = FALSE

\* main.py lines 12-31
LoadInputs ==
    /\ pc = "start"
    /\ fields' = load_first_vector(files)
    /\ waters' = load_first_vector(SelectSeq(files, IsWaterPath))
    /\ n_df' = IF bewDir.isdir THEN bewDir.rates ELSE <<>>
    /\ pc' = "distance"
    /\ UNCHANGED <<files, bewDir, prev, calls, error, csvWritten, geoWritten>>
    /\ UNCHANGED <<policyVars, queryVars>>

\* main.py lines 33-34
DistanceStage ==
    /\ pc = "distance"
    /\ IF ~IsEmpty(fields) /\ ~IsEmpty(waters)
       THEN LET res == compute_distance_to_water(fields, waters)
            IN /\ calls' = Append(calls, "distance")
               /\ error' = res.raised
               /\ fields' = res.df
               /\ pc' = IF res.raised = "none" THEN "loads" ELSE "aborted"
       ELSE /\ pc' = "loads"
            /\ UNCHANGED <<calls, error, fields>>
    /\ UNCHANGED <<files, bewDir, waters, n_df, prev, csvWritten, geoWritten>>
    /\ UNCHANGED <<policyVars, queryVars>>

\* main.py line 35
LoadStage ==
    /\ pc = "loads"
    /\ LET res == compute_n_loads(fields, n_df, RunoffCoef)
       IN /\ calls' = Append(calls, "loads")
          /\ prev' = fields
          /\ error' = res.raised
          /\ fields' = res.df
          /\ pc' = IF res.raised = "none" THEN "save_csv" ELSE "aborted"
    /\ UNCHANGED <<files, bewDir, waters, n_df, csvWritten, geoWritten>>
    /\ UNCHANGED <<policyVars, queryVars>>

\* the CSV written although the analysis raised (failure logged and ignored)
WriteCsv_afterFailure ==
    /\ pc \in {"save_csv", "aborted"}
    /\ ~csvWritten
    /\ csvWritten' = TRUE
    /\ pc' = IF pc = "aborted" THEN "aborted" ELSE "save_geo"
    /\ UNCHANGED <<files, bewDir, fields, waters, n_df, prev, calls, error, geoWritten>>
    /\ UNCHANGED <<policyVars, queryVars>>

\* main.py lines 37-38
WriteCsv ==
    /\ pc = "save_csv"
    /\ csvWritten' = TRUE
    /\ pc' = "save_geo"
    /\ UNCHANGED <<files, bewDir, fields, waters, n_df, prev, calls, error, geoWritten>>
    /\ UNCHANGED <<policyVars, queryVars>>

\* main.py lines 39-41
WriteGeo ==
    /\ pc = "save_geo"
    /\ geoWritten' = TRUE
    /\ pc' = "done"
    /\ UNCHANGED <<files, bewDir, fields, waters, n_df, prev, calls, error, csvWritten>>
    /\ UNCHANGED <<policyVars, queryVars>>

\* a caller other than run_pipeline calling compute_distance_to_water
DirectDistance ==
    /\ pc = "direct" /\ error = "none" /\ Len(calls) < MaxCalls
    /\ LET res == compute_distance_to_water(fields, waters)
       IN /\ calls' = Append(calls, "distance")
          /\ error' = res.raised
          /\ fields' = res.df
    /\ UNCHANGED <<pc, files, bewDir, waters, n_df, prev, csvWritten, geoWritten>>
    /\ UNCHANGED <<policyVars, queryVars>>

\* a caller other than run_pipeline calling compute_n_loads
DirectLoads ==
    /\ pc = "direct" /\ error = "none" /\ Len(calls) < MaxCalls
    /\ LET res == compute_n_loads(fields, n_df, RunoffCoef)
       IN /\ calls' = Append(calls, "loads")
          /\ prev' = fields
          /\ error' = res.raised
          /\ fields' = res.df
    /\ UNCHANGED <<pc, files, bewDir, waters, n_df, csvWritten, geoWritten>>
    /\ UNCHANGED <<policyVars, queryVars>>

AnalysisNext ==
    \/ LoadInputs \/ DistanceStage \/ LoadStage \/ WriteCsv \/ WriteGeo
    \/ DirectDistance \/ DirectLoads

(***************************************************************************)
(* Rate policy harness: the policy applied to two distances                *)
(***************************************************************************)
Unset == 0 - 1

\* distances around every band boundary, to a thousandth of a metre
DistSamples ==
    { [n |-> m * 1000 + e, d |-> 1000] :
        m \in {0, 500, 1000, 1500, 2000, 2500, 3000, 3500, 9000}, e \in {0 - 1, 0, 1} }

PolicyInit ==
    /\ d1 \in DistSamples /\ d2 \in DistSamples
    /\ r1 = Unset /\ r2 = Unset

Rate1 ==
    /\ r1 = Unset
    /\ r1' = calculate_nitrogen_from_distance(d1)
    /\ UNCHANGED <<d1, d2, r2>>
    /\ UNCHANGED <<pipeVars, queryVars>>

Rate2 ==
    /\ r2 = Unset
    /\ r2' = calculate_nitrogen_from_distance(d2)
    /\ UNCHANGED <<d1, d2, r1>>
    /\ UNCHANGED <<pipeVars, queryVars>>

PolicyNext == Rate1 \/ Rate2

AnalysisIdle ==
    /\ pc = "idle" /\ files = <<>> /\ bewDir = [isdir |-> FALSE, rates |-> <<>>]
    /\ fields = EmptyGeoDataFrame /\ waters = EmptyGeoDataFrame /\ n_df = <<>>
    /\ prev = EmptyGeoDataFrame /\ calls = <<>> /\ error = "none"
    /\ csvWritten = FALSE /\ geoWritten = FALSE

(***************************************************************************)
(* Query service (app.py).  A polygonal geometry is the set of closed unit *)
(* squares it covers, each named by its lower-left corner <<x, y>>; two    *)
(* geometries intersect when they share a point, touching included.        *)
(***************************************************************************)
MaxFields == 2

Max(S) == CHOOSE m \in S : \A k \in S : m >= k

\* geometry.bounds: (minx, miny, maxx, maxy)
Bounds(cells) ==
    [minx |-> Min({c[1] : c \in cells}), miny |-> Min({c[2] : c \in cells}),
     maxx |-> Max({c[1] : c \in cells}) + 1, maxy |-> Max({c[2] : c \in cells}) + 1]

\* the bounding-box test of the spatial index
BoxesIntersect(a, b) ==
    a.minx <= b.maxx /\ b.minx <= a.maxx /\ a.miny <= b.maxy /\ b.miny <= a.maxy

\* polygon.intersects(row.geometry)
Intersects(p, g) ==
    \E c \in p, e \in g : Abs(c[1] - e[1]) <= 1 /\ Abs(c[2] - e[2]) <= 1

\* shapes on a 3 x 3 grid; multi: made of more than one part
Shapes ==
    { [multi |-> FALSE, cells |-> {<<0, 0>>}],
      [multi |-> FALSE, cells |-> {<<2, 2>>}],
      [multi |-> FALSE, cells |-> {<<2, 0>>}],
      [multi |-> FALSE, cells |-> {<<1, 1>>}],
      [multi |-> FALSE, cells |-> {<<0, 0>>, <<0, 1>>, <<0, 2>>}],
      [multi |-> FALSE, cells |-> {<<0, 0>>, <<0, 1>>, <<0, 2>>, <<1, 0>>, <<2, 0>>}],
      [multi |-> TRUE, cells |-> {<<0, 0>>, <<2, 2>>}],
      [multi |-> TRUE, cells |-> {<<0, 2>>, <<2, 2>>}] }

NoGeom == [geom_type |-> "none", cells |-> {}]
Geom(s) == [geom_type |-> IF s.multi THEN "MultiPolygon" ELSE "Polygon", cells |-> s.cells]

\* stored collections: every field a Polygon or MultiPolygon, id = row number
Collections ==
    { [i \in DOMAIN ss |-> [id |-> i, geometry |-> Geom(ss[i])]] :
        ss \in SeqsUpTo(Shapes, MaxFields) }

\* app.py line 11: the index holds the bounding box of every row
BuildIndex(g) == [i \in DOMAIN g |-> Bounds(g[i].geometry.cells)]

GeomTypes == {"Polygon", "MultiPolygon", "Point", "LineString", "Circle"}

\* nesting depth of the coordinates of a GeoJSON geometry, 0 for a type that
\* shapely's shape() does not know
CoordDepth(type) ==
    CASE type = "Point" -> 1
      [] type = "LineString" -> 2
      [] type = "Polygon" -> 3
      [] type = "MultiPolygon" -> 4
      [] OTHER -> 0

\* coordinates: their nesting depth (0: not a list at all) and the squares
\* they enclose; depth-3 coordinates are the rings of one polygon
Requests ==
    UNION { { [type |-> t, coordinates |-> [depth |-> k, cells |-> s.cells]] :
                t \in GeomTypes, s \in {sh \in Shapes : k = 3 => ~sh.multi} } :
            k \in 0..4 }

NoRequest == [type |-> "none", coordinates |-> [depth |-> 0, cells |-> {}]]
NoResponse == [kind |-> "none", status |-> 0, matches |-> <<>>]

Rejected(g) == [ok |-> FALSE, geom |-> g]
Parsed(g) == [ok |-> TRUE, geom |-> g]

\* shapely.geometry.shape: raises on an unknown type or on coordinates that
\* do not have the structure of the type.  Geometries here are non-empty:
\* what shape() and the index make of empty coordinates depends on the
\* installed library version and is not modelled.
shape(req) ==
    IF CoordDepth(req.type) = 0 \/ req.coordinates.depth # CoordDepth(req.type)
    THEN Rejected(NoGeom)
    ELSE Parsed([geom_type |-> req.type, cells |-> req.coordinates.cells])

\* parse_geojson without the isinstance check
parse_geojson_anytype(geojson) == shape(geojson)

parse_geojson(geojson) ==
    LET geom == shape(geojson)
    IN IF ~geom.ok THEN Rejected(NoGeom)
       ELSE IF geom.geom.geom_type \notin {"Polygon", "MultiPolygon"} THEN Rejected(NoGeom)
       ELSE geom

\* an index that prunes nothing
sindex_intersection_all(idx, box) == DOMAIN idx

\* sindex.intersection(bounds): rows whose bounding box intersects the box
sindex_intersection(idx, box) == {i \in DOMAIN idx : BoxesIntersect(idx[i], box)}

QueryInit ==
    /\ gdf \in Collections
    /\ sindex = BuildIndex(gdf)
    /\ request = NoRequest
    /\ qpc = "idle"
    /\ polygon = NoGeom
    /\ candidates = {}
    /\ results = <<>>
    /\ response = NoResponse
    /\ lookups = 0
    /\ tests = 0

QueryIdle ==
    /\ gdf = <<>> /\ sindex = <<>> /\ request = NoRequest /\ qpc = "off"
    /\ polygon = NoGeom /\ candidates = {} /\ results = <<>>
    /\ response = NoResponse /\ lookups = 0 /\ tests = 0

\* a POST /check-area arrives
Receive ==
    /\ qpc = "idle"
    /\ request' \in Requests
    /\ qpc' = "parse"
    /\ polygon' = NoGeom /\ candidates' = {} /\ results' = <<>>
    /\ response' = NoResponse /\ lookups' = 0 /\ tests' = 0
    /\ UNCHANGED <<gdf, sindex>>
    /\ UNCHANGED <<policyVars, pipeVars>>

\* app.py line 42 (and 28-35)
Parse ==
    /\ qpc = "parse"
    /\ LET res == parse_geojson(request)
       IN IF res.ok
          THEN /\ polygon' = res.geom
               /\ qpc' = "index"
               /\ UNCHANGED response
          ELSE /\ response' = [kind |-> "error", status |-> 400, matches |-> <<>>]
               /\ qpc' = "done"
               /\ UNCHANGED polygon
    /\ UNCHANGED <<gdf, sindex, request, candidates, results, lookups, tests>>
    /\ UNCHANGED <<policyVars, pipeVars>>

\* app.py lines 45-46
IndexLookup ==
    /\ qpc = "index"
    /\ candidates' = sindex_intersection(sindex, Bounds(polygon.cells))
    /\ lookups' = lookups + 1
    /\ qpc' = "loop"
    /\ UNCHANGED <<gdf, sindex, request, polygon, results, response, tests>>
    /\ UNCHANGED <<policyVars, pipeVars>>

\* one iteration that appends the candidate without the exact test
ExactTest_skipped ==
    /\ qpc = "loop"
    /\ \E i \in candidates :
        /\ candidates' = candidates \ {i}
        /\ results' = Append(results, gdf[i])
    /\ tests' = tests
    /\ UNCHANGED <<gdf, sindex, request, qpc, polygon, response, lookups>>
    /\ UNCHANGED <<policyVars, pipeVars>>

\* app.py lines 49-56: one iteration of the loop over the candidates (the
\* index returns them in no particular order)
ExactTest ==
    /\ qpc = "loop"
    /\ \E i \in candidates :
        /\ candidates' = candidates \ {i}
        /\ results' = IF Intersects(polygon.cells, gdf[i].geometry.cells)
                      THEN Append(results, gdf[i])
                      ELSE results
    /\ tests' = tests + 1
    /\ UNCHANGED <<gdf, sindex, request, qpc, polygon, response, lookups>>
    /\ UNCHANGED <<policyVars, pipeVars>>

\* app.py lines 58-60
Respond ==
    /\ qpc = "loop"
    /\ candidates = {}
    /\ response' = IF results = <<>>
                   THEN [kind |-> "message", status |-> 200, matches |-> <<>>]
                   ELSE [kind |-> "matches", status |-> 200, matches |-> results]
    /\ qpc' = "done"
    /\ UNCHANGED <<gdf, sindex, request, polygon, candidates, results, lookups, tests>>
    /\ UNCHANGED <<policyVars, pipeVars>>

\* the response is sent; the handler's locals are gone, the service waits
\* for the next request
Return ==
    /\ qpc = "done"
    /\ qpc' = "idle"
    /\ request' = NoRequest /\ polygon' = NoGeom /\ candidates' = {}
    /\ results' = <<>> /\ response' = NoResponse /\ lookups' = 0 /\ tests' = 0
    /\ UNCHANGED <<gdf, sindex>>
    /\ UNCHANGED <<policyVars, pipeVars>>

QueryNext == Receive \/ Parse \/ IndexLookup \/ ExactTest \/ Respond \/ Return

(***************************************************************************)
(* Specifications                                                          *)
(***************************************************************************)
InitPolicy == PolicyInit /\ AnalysisIdle /\ QueryIdle
SpecPolicy == InitPolicy /\ [][PolicyNext]_vars

InitPipeline == PolicyIdle /\ AnalysisInit /\ QueryIdle
SpecPipeline == InitPipeline /\ [][AnalysisNext]_vars

InitQuery == PolicyIdle /\ AnalysisIdle /\ QueryInit
SpecQuery == InitQuery /\ [][QueryNext]_vars

(***************************************************************************)
(* Claims                                                                  *)
(***************************************************************************)
\* d is the distance k + e/1000 metres
IsMetres(d, k, e) == (e * d.d) % 1000 = 0 /\ d.n = k * d.d + (e * d.d) \div 1000

InBand(d, r) ==
    /\ RatGeqInt(d, 3000) => r = 80
    /\ RatGeqInt(d, 2000) /\ ~RatGeqInt(d, 3000) => r = 50
    /\ RatGeqInt(d, 1000) /\ ~RatGeqInt(d, 2000) => r = 40
    /\ ~RatGeqInt(d, 1000) => r = 0

AtBoundaries(d, r) ==
    /\ IsMetres(d, 3000, 0) => r = 80
    /\ IsMetres(d, 3000, 0 - 1) => r = 50
    /\ IsMetres(d, 2000, 0) => r = 50
    /\ IsMetres(d, 2000, 0 - 1) => r = 40
    /\ IsMetres(d, 1000, 0) => r = 40
    /\ IsMetres(d, 1000, 0 - 1) => r = 0

\* C1: the rate policy returns 80 from 3000 m, 50 from 2000 m, 40 from
\* 1000 m and 0 below; it is non-decreasing in the distance, and takes the
\* stated values at and just below each boundary.
C1_RateBands ==
    /\ r1 # Unset => InBand(d1, r1) /\ AtBoundaries(d1, r1)
    /\ r2 # Unset => InBand(d2, r2) /\ AtBoundaries(d2, r2)
    /\ r1 # Unset /\ r2 # Unset /\ RatLeq(d1, d2) => r1 <= r2

C1_Witness ==
    /\ IsMetres(d1, 3000, 0 - 1) /\ r1 = 50
    /\ IsMetres(d2, 3000, 0) /\ r2 = 80

\* stored rows whose geometry intersects the query polygon
TrueMatches ==
    {i \in DOMAIN gdf : Intersects(polygon.cells, gdf[i].geometry.cells)}

\* stored rows whose bounding box intersects the query polygon's
BoxMatches ==
    {i \in DOMAIN gdf :
        BoxesIntersect(Bounds(gdf[i].geometry.cells), Bounds(polygon.cells))}

Ids(rows) == {rows[k].id : k \in DOMAIN rows}

\* C2: for a valid query polygon the two-phase query returns exactly the
\* stored fields whose geometry intersects it: no true match is missing
\* from the candidates, and no false positive of the index is returned.
C2_TwoPhaseExact ==
    /\ qpc = "loop" =>
        /\ TrueMatches \subseteq (candidates \cup Ids(results))
        /\ Ids(results) \subseteq TrueMatches
    /\ qpc = "done" /\ response.status = 200 =>
        /\ Ids(response.matches) = TrueMatches
        /\ Len(response.matches) = Cardinality(TrueMatches)
        /\ response.kind = "message" <=> TrueMatches = {}
        /\ response.kind = "matches" <=> TrueMatches # {}

C2_Witness ==
    /\ qpc = "done" /\ response.kind = "matches"
    /\ TrueMatches # BoxMatches
    /\ tests = Cardinality(BoxMatches)

\* the request is not a Polygon or MultiPolygon with coordinates of that
\* type's structure
InvalidRequest(req) ==
    \/ req.type \notin {"Polygon", "MultiPolygon"}
    \/ req.type = "Polygon" /\ req.coordinates.depth # 3
    \/ req.type = "MultiPolygon" /\ req.coordinates.depth # 4

C3_Rejected ==
    qpc \notin {"idle", "parse"} /\ InvalidRequest(request) =>
        /\ qpc = "done"
        /\ response.kind = "error" /\ response.status = 400
        /\ lookups = 0 /\ tests = 0
        /\ polygon = NoGeom /\ candidates = {} /\ results = <<>>

C10_PrunedToNoMatch ==
    polygon # NoGeom /\ BoxMatches = {} =>
        /\ qpc = "loop" => candidates = {} /\ tests = 0 /\ lookups = 1
        /\ qpc = "done" =>
            /\ tests = 0
            /\ response = [kind |-> "message", status |-> 200, matches |-> <<>>]

C10_Witness ==
    /\ qpc = "done" /\ polygon # NoGeom /\ BoxMatches = {}
    /\ Len(gdf) = MaxFields /\ response.kind = "message"

\* compute_n_loads has been called and has returned
LoadsReturned ==
    \E k \in DOMAIN calls : calls[k] = "loads" /\ (k < Len(calls) \/ error = "none")

LoadCols == {"n_applied_kg_ha", "n_total_kg", "n_estimated_to_water_kg"}

\* C4: with no nitrogen records, the load estimator leaves applied rate,
\* total applied and estimated-to-water nitrogen null for every field,
\* never zero or any other number.
C4_NoRecordsNoData ==
    LoadsReturned /\ n_df = <<>> =>
        /\ LoadCols \subseteq fields.cols
        /\ \A i \in DOMAIN fields.rows :
            /\ IsNone(fields.rows[i].n_applied_kg_ha)
            /\ IsNone(fields.rows[i].n_total_kg)
            /\ IsNone(fields.rows[i].n_estimated_to_water_kg)

C4_Witness ==
    /\ pc = "done" /\ n_df = <<>> /\ Len(fields.rows) = MaxRows
    /\ LoadCols \subseteq fields.cols
    /\ IsNone(fields.rows[1].n_total_kg)

\* C5: with records, every field gets the arithmetic mean of the records'
\* rates as applied rate, total = mean x area and to-water = total x 0.1,
\* whatever its distance and policy rate: one record of 60 kg/ha, 10 ha and
\* 2500 m give policy rate 50, total 600 kg and 60 kg to water.
C5_MeanRateLoads ==
    LoadsReturned /\ n_df # <<>> =>
        \A i \in DOMAIN fields.rows :
            LET r == fields.rows[i] IN
            /\ ~IsNone(r.n_applied_kg_ha)
            /\ RatMul(r.n_applied_kg_ha, Num(Len(n_df))) = SeqSum(n_df)
            /\ r.n_applied_kg_ha = fields.rows[1].n_applied_kg_ha
            /\ r.n_total_kg = RatMul(r.n_applied_kg_ha, r.area_ha)
            /\ RatMul(r.n_estimated_to_water_kg, Num(10)) = r.n_total_kg
            /\ (n_df = <<Num(60)>> /\ r.area_ha = Num(10) /\ r.dist_to_water_m = Num(2500)) =>
                /\ r.fertilizer_amount_N_kg_per_ha = Num(50)
                /\ r.n_total_kg = Num(600)
                /\ r.n_estimated_to_water_kg = Num(60)

C5_Witness ==
    /\ pc = "done" /\ n_df = <<Num(60)>> /\ Len(fields.rows) = MaxRows
    /\ fields.rows[1].area_ha = Num(10)
    /\ fields.rows[1].dist_to_water_m = Num(2500)
    /\ fields.rows[1].fertilizer_amount_N_kg_per_ha = Num(50)
    /\ fields.rows[1].n_total_kg = Num(600)
    /\ fields.rows[2].fertilizer_amount_N_kg_per_ha = Num(80)
    /\ fields.rows[2].n_applied_kg_ha = Num(60)

\* the distance stage is over (run_pipeline), or compute_distance_to_water
\* has been called directly
DistanceStageOver ==
    \/ pc \in {"loads", "save_csv", "save_geo", "done"}
    \/ pc = "direct" /\ \E k \in DOMAIN calls : calls[k] = "distance"

\* C6: with an empty water collection, after the distance stage and to the
\* end of the run every field's distance is undefined and no field has a
\* policy rate; no field without a distance ever has a policy rate.
C6_NoWaterNoRate ==
    /\ DistanceStageOver /\ IsEmpty(waters) =>
        /\ "fertilizer_amount_N_kg_per_ha" \notin fields.cols
        /\ \A i \in DOMAIN fields.rows :
            /\ IsNone(fields.rows[i].dist_to_water_m)
            /\ IsNone(fields.rows[i].fertilizer_amount_N_kg_per_ha)
    /\ \A i \in DOMAIN fields.rows :
        IsNone(fields.rows[i].dist_to_water_m) =>
            IsNone(fields.rows[i].fertilizer_amount_N_kg_per_ha)

C6_Witness ==
    /\ pc = "direct" /\ calls = <<"distance">> /\ error = "none"
    /\ IsEmpty(waters) /\ Len(fields.rows) = MaxRows
    /\ "dist_to_water_m" \in fields.cols
    /\ IsNone(fields.rows[1].dist_to_water_m)

\* the latest two calls are compute_n_loads, the second on the first's result
LoadsTwice ==
    /\ Len(calls) >= 2 /\ error = "none"
    /\ calls[Len(calls)] = "loads" /\ calls[Len(calls) - 1] = "loads"

\* C7: compute_n_loads run again on its own result gives the same area,
\* applied rate, total and to-water value for every field; an area
\* attribute that is present is kept, not recomputed from the geometry.
C7_LoadsIdempotent ==
    /\ LoadsTwice =>
        /\ Len(fields.rows) = Len(prev.rows)
        /\ \A i \in DOMAIN fields.rows :
            /\ fields.rows[i].area_ha = prev.rows[i].area_ha
            /\ fields.rows[i].n_applied_kg_ha = prev.rows[i].n_applied_kg_ha
            /\ fields.rows[i].n_total_kg = prev.rows[i].n_total_kg
            /\ fields.rows[i].n_estimated_to_water_kg = prev.rows[i].n_estimated_to_water_kg
    /\ LoadsReturned /\ "area_ha" \in prev.cols =>
        \A i \in DOMAIN fields.rows : fields.rows[i].area_ha = prev.rows[i].area_ha

C7_Witness ==
    /\ LoadsTwice /\ n_df # <<>> /\ Len(fields.rows) = MaxRows
    /\ fields.rows[1].geometry.m2 = 75000 /\ fields.rows[1].area_ha = Num(8)
    /\ ~IsNone(fields.rows[1].n_estimated_to_water_kg)

\* C8: in a run in which a reprojection fails, neither output file is
\* written, before the failure or after it.
C8_NoOutputOnCrsFailure ==
    error = "CRSError" => ~csvWritten /\ ~geoWritten

C8_Witness ==
    /\ pc = "aborted" /\ error = "CRSError" /\ calls = <<"distance">>
    /\ ~csvWritten /\ ~geoWritten

\* no candidate vector file could be read
NoVectorReadable == \A k \in DOMAIN files : ~files[k].readable

\* C9: when no field vector file can be read, or the water or the record
\* collection is empty, the run does not raise in the distance and load
\* stages and reaches the writing of the outputs (a failed reprojection,
\* the fatal configuration error, apart).
C9_AbsentDataNoCrash ==
    (pc \in {"loads", "save_csv", "save_geo", "done", "aborted"}
        /\ (NoVectorReadable \/ IsEmpty(waters) \/ n_df = <<>>))
    => (pc = "aborted" => error = "CRSError")

====
